---- MODULE Spec2Model ----
(***************************************************************************)
(* Secret Santa organizer: the draw engine (services/draw.js), the         *)
(* assignment store (models/assignment.js) and the group routes            *)
(* (routes/group.js) that drive them.                                      *)
(*                                                                         *)
(* These specifications share this module:                                 *)
(*   SpecEngine  generateHamiltonianCycle as a function of its inputs: the *)
(*               roster and the exclusion map are drawn in the initial     *)
(*               state, one action applies the function.                   *)
(*   SpecSearch  the same search, one loop iteration per step, with the    *)
(*               attempt counter of the retry loop.                        *)
(*   Spec        the request handlers over the database tables.            *)
(*   SpecPerform Spec, with performDraw also called without the handlers'  *)
(*               draw-exists check.                                        *)
(*   SpecMail    the mail path (services/mailer.js) over groups whose      *)
(*               rosters are complete: draws, resets, sendAllEmails calls  *)
(*               one delivery per step, restarts of the process.           *)
(*   SpecPage    draws, resets and the participant's page of the edit      *)
(*               link.                                                     *)
(*   SpecReset   draws, mail and resets over two groups that can both hold *)
(*               a draw, with exclusions registered beforehand.            *)
(*   SpecDelete  draws, resets and deletions of groups.                    *)
(*   SpecStart   starts and stops of the process with the values the       *)
(*               environment can give ENCRYPTION_KEY, draws and resets.    *)
(*   SpecCodec   Assignment.encrypt followed by Assignment.decrypt on one  *)
(*               receiver id.                                              *)
(*   SpecRetry   the mail path without resets and restarts, send-emails    *)
(*               requests repeated under fairness.                         *)
(*   SpecArchive every request requireNotArchived guards, the registration *)
(*               through the invitation code, archive and unarchive.       *)
(*                                                                         *)
(* services/draw.js names its scope "organizer" (findAllByOrganizer,       *)
(* getExclusionMapByOrganizer, clearAllByOrganizer) while its caller,      *)
(* routes/group.js, passes a group id and the models define the ByGroup    *)
(* queries; the scope is the group throughout.                             *)
(***************************************************************************)
EXTENDS Integers, Sequences, FiniteSets, TLC

\* ------------------------------------------------------------------ bounds
\* largest roster given to the engine in SpecEngine
MaxRoster == 4
\* most exclusion rows given to the engine in SpecEngine
MaxEngineExclusions == 3
\* largest roster and most exclusion rows of the stepwise search (SpecSearch)
MaxSearchRoster == 3
MaxSearchExclusions == 2

\* Spec: groups of the organizer, participant rows ever inserted, rows of the
\* exclusions table, assignment rows ever inserted
NumGroups == 2
MaxParticipants == 3
MaxExclusions == 2
MaxAssignments == 4

\* retry budget of generateHamiltonianCycle: for (attempt = 0; attempt < 100; ...)
MaxAttempts == 100

\* ------------------------------------------------------------ state
VARIABLES
  e_ids,        \* SpecEngine: participants.map(p => p.id), as a set of distinct ids
  e_excl,       \* SpecEngine: the exclusion rows <<giver_id, receiver_id>>
  e_result,     \* SpecEngine: what generateHamiltonianCycle returned
  s_ids,        \* SpecSearch: the roster
  s_excl,       \* SpecSearch: the exclusion rows
  s_pc,         \* SpecSearch: "loop" (between attempts), "search", "done"
  s_attempt,    \* SpecSearch: the loop variable attempt
  s_calls,      \* SpecSearch: calls of tryBuildCycle made so far
  s_cycle,      \* SpecSearch: the array cycle of the running attempt
  s_stack,      \* SpecSearch: per active backtrack() frame, the receivers not yet iterated
  s_result,     \* SpecSearch: the value returned
  participants,     \* table participants: rows [id, group_id]
  participantSeq,   \* AUTOINCREMENT counter of participants
  exclusions,       \* table exclusions: rows <<giver_id, receiver_id>>, UNIQUE
  assignments,      \* table assignments: rows [id, giver_id, receiver_hash,
                    \*   encrypted_receiver, email_sent]
  assignmentSeq,    \* AUTOINCREMENT counter of assignments
  archived,         \* the groups whose archived_at is set
  groups,           \* table groups: the ids of the organizer's groups
  settings,         \* table groups: per group its name and its invitation code
  last,             \* the organizer's last request served: handler, group, outcome, and for
                    \*   draw/perform the store it found and the roster size
  encryptionKey,    \* process.env.ENCRYPTION_KEY of the running process
  calls,            \* the sendAllEmails calls: per call its group, the pending
                    \*   assignments it still has to send (the first is with the
                    \*   transport), its counters and its result
  delivered,        \* the messages the transport has delivered: the row, its
                    \*   giver, the receiver named, the call that sent it
  decrypts,         \* the calls of Assignment.decrypt made so far: the path
                    \*   it was made on and the row's email_sent then
  c_receiverId,     \* SpecCodec: the receiver id given to Assignment.encrypt
  c_encrypted,      \* SpecCodec: what encrypt returned
  c_decrypted       \* SpecCodec: what decrypt returned for it

engineVars == <<e_ids, e_excl, e_result>>
searchVars == <<s_ids, s_excl, s_pc, s_attempt, s_calls, s_cycle, s_stack, s_result>>
webVars == <<participants, participantSeq, exclusions, assignments, assignmentSeq,
             archived, groups, settings, last>>
mailVars == <<encryptionKey, calls, delivered, decrypts>>
codecVars == <<c_receiverId, c_encrypted, c_decrypted>>
vars == <<engineVars, searchVars, webVars, mailVars, codecVars>>

\* ------------------------------------------------------------ helpers
Range(s) == {s[i] : i \in 1..Len(s)}

\* the result "no cycle" of one attempt (tryBuildCycle returns null)
NoCycle == <<>>

NoResult == [success |-> FALSE, assignments |-> <<>>, returned |-> FALSE]

\* Exclusion.getExclusionMapByGroup: giver -> its excluded receivers;
\* exclusionMap.get(giver) || []
ExclusionMapGetNone(excl, giver) == {}
ExclusionMapGet(excl, giver) == {p[2] : p \in {q \in excl : q[1] = giver}}

\* generateHamiltonianCycle, lines 57-63: who can give to whom
PossibleNoExclusions(ids, excl, giver) == {r \in ids : r # giver}
Possible(ids, excl, giver) ==
  {r \in ids : r # giver /\ r \notin ExclusionMapGet(excl, giver)}

CanGiveTo(ids, excl) == [giver \in ids |-> Possible(ids, excl, giver)]

\* canGiveTo.get(x) || []   (x may be undefined when the roster is empty)
Receivers(canGiveTo, x) == IF x \in DOMAIN canGiveTo THEN canGiveTo[x] ELSE {}

\* backtrack, lines 90-96: the full cycle closes iff last can give to first
ClosesAlways(cycle, n, canGiveTo) == TRUE
Closes(cycle, n, canGiveTo) == cycle[1] \in Receivers(canGiveTo, cycle[n])

\* backtrack, line 105: used.has(receiver); used mirrors the elements of cycle
UsedNever(cycle, receiver) == FALSE
Used(cycle, receiver) == receiver \in Range(cycle)

\* backtrack, lines 109-118: a failed branch falls through to the next receiver of
\* the loop; only the exhausted loop returns false
AfterBranchGreedy(sub, rest) == sub
AfterBranch(sub, rest) ==
  (sub \ {NoCycle}) \cup (IF NoCycle \in sub THEN rest ELSE {})

\* tryBuildCycle, lines 122-130: pair i gives to pair (i + 1) % n
ToAssignments(cycle, n) ==
  [i \in 1..n |-> [giverId |-> cycle[i], receiverId |-> cycle[(i % n) + 1]]]

\* backtrack, lines 89-119.  The value is the set of results the call can have
\* over every order the two sorts with a random comparator can produce: a full
\* cycle when it returns true, NoCycle when it returns false.  TryReceivers is
\* the for loop over shuffledReceivers: `untried` holds the receivers the loop
\* has not reached, and any of them may be next in the shuffled order.  The loop
\* body skips a used receiver, and cycle is the same at every iteration (a failed
\* branch pops what it pushed), so the used receivers are left out of `untried`.
RECURSIVE Backtrack(_, _, _), TryReceivers(_, _, _, _)
Backtrack(cycle, n, canGiveTo) ==
  IF Len(cycle) = n
  THEN IF Closes(cycle, n, canGiveTo) THEN {cycle} ELSE {NoCycle}
  ELSE TryReceivers(cycle, n, canGiveTo,
                    {r \in Receivers(canGiveTo, cycle[Len(cycle)]) : ~Used(cycle, r)})

TryReceivers(cycle, n, canGiveTo, untried) ==
  IF untried = {} THEN {NoCycle}
  ELSE UNION { AfterBranch(Backtrack(Append(cycle, r), n, canGiveTo),
                           TryReceivers(cycle, n, canGiveTo, untried \ {r}))
             : r \in untried }

\* tryBuildCycle, lines 79-134: shuffled[0] is any id (undefined for an empty
\* roster: then cycle.length is 1, never n, and no receiver is found)
TryBuildCycle(ids, canGiveTo) ==
  IF ids = {} THEN {NoCycle}
  ELSE UNION { Backtrack(<<first>>, Cardinality(ids), canGiveTo) : first \in ids }

\* generateHamiltonianCycle, lines 65-73: the retry loop.  `attempts` is the set
\* of results one attempt can have; every attempt draws from it independently.
\* The loop returns at attempt a with the cycle found there when the attempts
\* before a all returned null, and returns failure when all MaxAttempts did.
CanAllFail(attempts, k) == k = 0 \/ NoCycle \in attempts

AttemptLoop(attempts, n) ==
  { [success |-> TRUE, assignments |-> ToAssignments(c, n), returned |-> TRUE]
    : c \in { d \in attempts \ {NoCycle} :
                \E a \in 0..(MaxAttempts - 1) : CanAllFail(attempts, a) } }
  \cup (IF CanAllFail(attempts, MaxAttempts)
        THEN { [success |-> FALSE, assignments |-> <<>>, returned |-> TRUE] }
        ELSE {})

GenerateHamiltonianCycle(ids, excl) ==
  AttemptLoop(TryBuildCycle(ids, CanGiveTo(ids, excl)), Cardinality(ids))

\* ------------------------------------------------------------ SpecEngine
\* rosters 1..n (ids are opaque and distinct) with 2 <= n: performDraw calls the
\* engine with at least two participants; exclusion rows join two participants of
\* the roster
Rosters(max) == {1..n : n \in 2..max}

\* the subsets of S of at most k elements
RECURSIVE AtMost(_, _)
AtMost(S, k) ==
  IF k = 0 THEN {{}}
  ELSE LET smaller == AtMost(S, k - 1)
       IN smaller \cup {x \cup {e} : x \in smaller, e \in S}

EngineInit ==
  /\ e_ids \in Rosters(MaxRoster)
  /\ e_excl \in AtMost(e_ids \X e_ids, MaxEngineExclusions)
  /\ e_result = NoResult

EngineDraw ==
  /\ ~e_result.returned
  /\ e_result' \in GenerateHamiltonianCycle(e_ids, e_excl)
  /\ UNCHANGED <<e_ids, e_excl>>
  /\ UNCHANGED <<codecVars, searchVars, webVars, mailVars>>

SearchIdle ==
  /\ s_ids = {} /\ s_excl = {} /\ s_pc = "idle" /\ s_attempt = 0 /\ s_calls = 0
  /\ s_cycle = <<>> /\ s_stack = <<>> /\ s_result = NoResult

NoRequest == [op |-> "none", group |-> 0, outcome |-> "none", thrown |-> FALSE,
              count |-> 0, inserted |-> 0, prior |-> {}]

\* the ids of the organizer's groups
Groups == 1..NumGroups

\* Group.create: the name the organizer gave and the first code generated
\* (generateGroupCode: four random bytes; the k-th code of group g is <<g, k>>)
InitialSettings == [g \in Groups |-> [name |-> "Noel", code |-> <<g, 0>>]]

WebIdle ==
  /\ participants = {} /\ participantSeq = 0 /\ exclusions = {}
  /\ assignments = {} /\ assignmentSeq = 0 /\ archived = {} /\ groups = Groups /\ settings = InitialSettings
  /\ last = NoRequest

EngineIdle == e_ids = {} /\ e_excl = {} /\ e_result = NoResult

\* the value of process.env.ENCRYPTION_KEY after it was changed i times
Key(i) == <<"ENCRYPTION_KEY", i>>

\* process.env.ENCRYPTION_KEY as first deployed
EncryptionKey == Key(0)

\* a sendAllEmails call that has not been made
NoCall == [pc |-> "idle", group |-> 0, pending |-> <<>>, atStart |-> {},
           sent |-> 0, failed |-> 0, errors |-> <<>>, success |-> FALSE]

\* bound: sendAllEmails calls made in a run of SpecMail
MaxCalls == 2

\* no call of encrypt yet
NoCiphertext == [key |-> <<"none", 0>>, plaintext |-> <<>>]
NoValue == [thrown |-> FALSE, value |-> 0]
CodecIdle == c_receiverId = 0 /\ c_encrypted = NoCiphertext /\ c_decrypted = NoValue

MailIdle ==
  /\ encryptionKey = EncryptionKey /\ calls = [c \in 1..MaxCalls |-> NoCall]
  /\ delivered = {} /\ decrypts = {}

InitEngine == EngineInit /\ SearchIdle /\ WebIdle /\ MailIdle /\ CodecIdle
NextEngine == EngineDraw
SpecEngine == InitEngine /\ [][NextEngine]_vars

\* ------------------------------------------------------------ SpecSearch
\* generateHamiltonianCycle, line 66: the loop condition
AttemptsLeftOffByOne(attempt) == attempt <= MaxAttempts
AttemptsLeft(attempt) == attempt < MaxAttempts

\* (rows with giver_id = receiver_id change nothing in canGiveTo, which leaves
\* the giver out anyway; SpecEngine draws them, this specification does not)
InitSearch ==
  /\ s_ids \in Rosters(MaxSearchRoster)
  /\ s_excl \in AtMost({x \in s_ids \X s_ids : x[1] # x[2]}, MaxSearchExclusions)
  /\ s_pc = "loop" /\ s_attempt = 0 /\ s_calls = 0
  /\ s_cycle = <<>> /\ s_stack = <<>> /\ s_result = NoResult
  /\ EngineIdle /\ WebIdle /\ MailIdle /\ CodecIdle

s_n == Cardinality(s_ids)
s_canGiveTo == CanGiveTo(s_ids, s_excl)

\* backtrack() is entered with `cycle`, the frames `stack` of its callers below it.
\* A full cycle is checked on entry (lines 90-96): true unwinds every caller
\* (line 110) and tryBuildCycle returns the assignments; false returns to the
\* caller, which pops the receiver it pushed (lines 113-114).  A shorter cycle
\* starts the loop over the receivers of its last element (lines 98-104).
EnterBacktrack(cycle, stack) ==
  IF Len(cycle) = s_n
  THEN IF Closes(cycle, s_n, s_canGiveTo)
       THEN /\ s_pc' = "done"
            /\ s_result' = [success |-> TRUE,
                            assignments |-> ToAssignments(cycle, s_n),
                            returned |-> TRUE]
            /\ s_cycle' = cycle /\ s_stack' = <<>>
            /\ UNCHANGED s_attempt
       ELSE IF stack = <<>>
            THEN \* the outermost call failed: tryBuildCycle returns null
                 /\ s_pc' = "loop" /\ s_attempt' = s_attempt + 1
                 /\ s_cycle' = <<>> /\ s_stack' = <<>>
                 /\ UNCHANGED s_result
            ELSE /\ s_pc' = "search"
                 /\ s_cycle' = SubSeq(cycle, 1, Len(cycle) - 1)
                 /\ s_stack' = stack
                 /\ UNCHANGED <<s_attempt, s_result>>
  ELSE /\ s_pc' = "search"
       /\ s_cycle' = cycle
       /\ s_stack' = Append(stack, Receivers(s_canGiveTo, cycle[Len(cycle)]))
       /\ UNCHANGED <<s_attempt, s_result>>

\* lines 66-67 and 83-87, 121: one more attempt; shuffled[0] is any id
SearchStartAttempt ==
  /\ s_pc = "loop" /\ AttemptsLeft(s_attempt)
  /\ s_calls' = s_calls + 1
  /\ \E first \in s_ids : EnterBacktrack(<<first>>, <<>>)
  /\ UNCHANGED <<s_ids, s_excl>>
  /\ UNCHANGED <<codecVars, engineVars, webVars, mailVars>>

\* lines 104-109: the next receiver of the shuffled order, skipped when used,
\* otherwise pushed and searched from
SearchTryReceiver ==
  /\ s_pc = "search" /\ s_stack # <<>>
  /\ \E r \in s_stack[Len(s_stack)] :
       LET rest == [s_stack EXCEPT ![Len(s_stack)] = @ \ {r}]
       IN IF Used(s_cycle, r)
          THEN /\ s_stack' = rest
               /\ UNCHANGED <<s_pc, s_cycle, s_attempt, s_result>>
          ELSE EnterBacktrack(Append(s_cycle, r), rest)
  /\ UNCHANGED <<s_ids, s_excl, s_calls>>
  /\ UNCHANGED <<codecVars, engineVars, webVars, mailVars>>

\* line 118: the loop is exhausted, backtrack() returns false; its caller pops
\* the receiver (lines 113-114), or tryBuildCycle returns null (line 133)
SearchReturnFalse ==
  /\ s_pc = "search" /\ s_stack # <<>> /\ s_stack[Len(s_stack)] = {}
  /\ IF Len(s_stack) = 1
     THEN /\ s_pc' = "loop" /\ s_attempt' = s_attempt + 1
          /\ s_cycle' = <<>> /\ s_stack' = <<>>
     ELSE /\ s_stack' = SubSeq(s_stack, 1, Len(s_stack) - 1)
          /\ s_cycle' = SubSeq(s_cycle, 1, Len(s_cycle) - 1)
          /\ UNCHANGED <<s_pc, s_attempt>>
  /\ UNCHANGED <<s_ids, s_excl, s_calls, s_result>>
  /\ UNCHANGED <<codecVars, engineVars, webVars, mailVars>>

\* line 73: the budget is spent
SearchGiveUp ==
  /\ s_pc = "loop" /\ ~AttemptsLeft(s_attempt)
  /\ s_pc' = "done"
  /\ s_result' = [success |-> FALSE, assignments |-> <<>>, returned |-> TRUE]
  /\ UNCHANGED <<s_ids, s_excl, s_calls, s_attempt, s_cycle, s_stack>>
  /\ UNCHANGED <<codecVars, engineVars, webVars, mailVars>>

NextSearch ==
  \/ SearchStartAttempt
  \/ SearchTryReceiver
  \/ SearchReturnFalse
  \/ SearchGiveUp

\* synchronous code: a call that can take a step takes it
SpecSearch == InitSearch /\ [][NextSearch]_vars /\ WF_vars(NextSearch)

\* the stepwise search returns only what the function form allows
SearchAgreesWithEngine ==
  s_result.returned => s_result \in GenerateHamiltonianCycle(s_ids, s_excl)

\* ------------------------------------------------------------ the store
\* String(receiverId): the decimal digits
RECURSIVE StringOf(_)
StringOf(n) == IF n < 10 THEN <<n>> ELSE Append(StringOf(n \div 10), n % 10)

\* parseInt(text, 10) of a digit string; NaN for the empty string
NaN == -1
RECURSIVE ParseIntOctal(_)
ParseIntOctal(text) ==
  IF text = <<>> THEN NaN
  ELSE IF Len(text) = 1 THEN text[1]
  ELSE 8 * ParseIntOctal(SubSeq(text, 1, Len(text) - 1)) + text[Len(text)]
RECURSIVE ParseInt(_)
ParseInt(text) ==
  IF text = <<>> THEN NaN
  ELSE IF Len(text) = 1 THEN text[1]
  ELSE 10 * ParseInt(SubSeq(text, 1, Len(text) - 1)) + text[Len(text)]

\* what Assignment.decrypt throws on bytes that are not UTF-8
Malformed == [thrown |-> TRUE, value |-> NaN]

\* Assignment.encrypt / decrypt / hash under the key of the running process.
\* The ciphertext is opaque without the key it was written with.  With that
\* key decrypt gives back what the digits parse to.  With another key
\* (or a damaged ciphertext) AES yields arbitrary bytes: either they are not
\* UTF-8 and toString throws, or the unpadded text is empty and parseInt
\* gives NaN; decrypt is the set of these outcomes.
Encrypt(receiverId) == [key |-> encryptionKey, plaintext |-> StringOf(receiverId)]
Decrypt(encryptedReceiver) ==
  IF encryptedReceiver.key = encryptionKey
  THEN {[thrown |-> FALSE, value |-> ParseInt(encryptedReceiver.plaintext)]}
  ELSE {[thrown |-> FALSE, value |-> NaN], Malformed}
Hash(receiverId) == [sha256 |-> <<StringOf(receiverId), encryptionKey>>]

\* SELECT id FROM participants WHERE group_id = ?
GroupParticipantIds(parts, groupId) == {p.id : p \in {q \in parts : q.group_id = groupId}}

\* the rows of `store` with giver_id IN (SELECT id FROM participants WHERE group_id = ?)
GroupAssignments(store, parts, groupId) ==
  {a \in store : a.giver_id \in GroupParticipantIds(parts, groupId)}

\* Assignment.clearAllByGroup
ClearAll(store, parts, groupId) == {}
ClearAllByGroup(store, parts, groupId) == store \ GroupAssignments(store, parts, groupId)

\* Assignment.drawExistsByGroup
DrawExistsNever(store, parts, groupId) == FALSE
DrawExistsForAll(store, parts, groupId) ==
  /\ GroupAssignments(store, parts, groupId) # {}
  /\ \A id \in GroupParticipantIds(parts, groupId) :
       \E a \in store : a.giver_id = id
DrawExistsByGroup(store, parts, groupId) == GroupAssignments(store, parts, groupId) # {}

\* Assignment.countPendingEmailsByGroup / countSentEmailsByGroup
CountPendingEmailsByGroup(store, parts, groupId) ==
  Cardinality({a \in GroupAssignments(store, parts, groupId) : ~a.email_sent})
CountSentEmailsByGroup(store, parts, groupId) ==
  Cardinality({a \in GroupAssignments(store, parts, groupId) : a.email_sent})

\* the rows insert.run has written after the first k items: ids from the
\* AUTOINCREMENT counter, email_sent DEFAULT 0
InsertedRows(store, seq, items, k) ==
  store \cup { [id |-> seq + i,
                giver_id |-> items[i].giverId,
                receiver_hash |-> Hash(items[i].receiverId),
                encrypted_receiver |-> Encrypt(items[i].receiverId),
                email_sent |-> FALSE] : i \in 1..k }

\* Assignment.createMany: the inserts run in one db.transaction.  failAt is the
\* number of items inserted when an insert throws (Len(items) + 1: none does).
\* A throw rolls the transaction back: the table and the counter are as the
\* transaction found them.
CreateMany(store, seq, items, failAt) ==
  IF failAt > Len(items)
  THEN [store |-> InsertedRows(store, seq, items, Len(items)), seq |-> seq + Len(items),
        thrown |-> FALSE]
  ELSE [store |-> store, seq |-> seq, thrown |-> TRUE]

\* the rows of a result set in the order of the table scan (ascending id)
RECURSIVE SeqById(_)
SeqById(rows) ==
  IF rows = {} THEN <<>>
  ELSE LET first == CHOOSE a \in rows : \A b \in rows : a.id <= b.id
       IN <<first>> \o SeqById(rows \ {first})

\* one call of Assignment.decrypt, as the log keeps it
DecryptCall(path, a) == [path |-> path, email_sent |-> a.email_sent]

\* ------------------------------------------------------------ performDraw
\* performDraw, line 18
TooFewOffByOne(n) == n < 1
TooFew(n) == n < 2

\* performDraw, lines 19-22 and 31-35: a failure is a returned result object
FailureThrown(kind, store, seq) ==
  [kind |-> kind, success |-> FALSE, thrown |-> TRUE, inserted |-> 0,
   store |-> store, seq |-> seq]
Failure(kind, store, seq) ==
  [kind |-> kind, success |-> FALSE, thrown |-> FALSE, inserted |-> 0,
   store |-> store, seq |-> seq]

\* performDraw, lines 38-46: clear the scope, insert the new rows; an error of
\* createMany is not caught here
Persist(store, seq, parts, groupId, items, failAt) ==
  LET done == CreateMany(ClearAllByGroup(store, parts, groupId), seq, items, failAt)
  IN [kind |-> IF done.thrown THEN "persist_error" ELSE "success",
      success |-> ~done.thrown, thrown |-> done.thrown,
      inserted |-> IF done.thrown THEN failAt ELSE Len(items),
      store |-> done.store, seq |-> done.seq]

\* performDraw, lines 15-47: every result the call can have in the given state
PerformDrawResults(store, seq, parts, excl, groupId) ==
  LET ids == GroupParticipantIds(parts, groupId)
      exclusionMap == {x \in excl : x[1] \in ids}
  IN IF TooFew(Cardinality(ids))
     THEN {Failure("insufficient", store, seq)}
     ELSE UNION { IF ~r.success
                  THEN {Failure("no_valid_cycle", store, seq)}
                  ELSE {Persist(store, seq, parts, groupId, r.assignments, failAt)
                        : failAt \in 0..(Len(r.assignments) + 1)}
                : r \in GenerateHamiltonianCycle(ids, exclusionMap) }

\* performDraw, lines 21, 33-34, 44: the message of a result
Message(kind, count) ==
  IF kind = "success" THEN <<"Tirage effectue avec succes pour", count, "participants.">>
  ELSE IF kind = "insufficient"
  THEN <<"Il faut au moins 2 participants pour effectuer un tirage.">>
  ELSE <<"Impossible de generer un tirage valide avec les regles d'exclusion actuelles.">>

\* ------------------------------------------------------------ Spec: the requests
Served(op, groupId, outcome) ==
  last' = [op |-> op, group |-> groupId, outcome |-> outcome, thrown |-> FALSE,
           count |-> 0, inserted |-> 0, prior |-> {}]

\* requireNotArchived: the request is answered with the error flash and a redirect
ArchivedNever(groupId) == FALSE
Archived(groupId) == groupId \in archived

\* requireGroupAccess: Group.findByIdAndOrganizer finds the group; if not, the
\* request is answered with the error flash and a redirect to the dashboard
GroupAccess(groupId) == groupId \in groups

Rejected(op, groupId, outcome) ==
  /\ Served(op, groupId, outcome)
  /\ UNCHANGED <<participants, participantSeq, exclusions, assignments, assignmentSeq,
                 archived>>

\* Participant.create: INSERT INTO participants, id from the AUTOINCREMENT counter
ParticipantCreate(groupId) ==
  /\ participantSeq < MaxParticipants
  /\ participantSeq' = participantSeq + 1
  /\ participants' = participants \cup {[id |-> participantSeq + 1, group_id |-> groupId]}

\* POST /participants/add.  `valid`: the form passes the validation of lines
\* 88-107 (names, email format, email not yet in the group)
AddParticipant(groupId, valid) ==
  /\ IF ~GroupAccess(groupId) THEN Rejected("participants/add", groupId, "not_found")
     ELSE IF Archived(groupId) THEN Rejected("participants/add", groupId, "archived")
     ELSE IF DrawExistsByGroup(assignments, participants, groupId)
     THEN Rejected("participants/add", groupId, "draw_exists")
     ELSE IF ~valid THEN Rejected("participants/add", groupId, "invalid")
     ELSE /\ ParticipantCreate(groupId)
          /\ Served("participants/add", groupId, "ok")
          /\ UNCHANGED <<exclusions, assignments, assignmentSeq, archived>>
  /\ UNCHANGED <<codecVars, settings, groups, engineVars, searchVars, mailVars>>

\* POST /join/:code, the public registration through the invitation code
Join(groupId, valid) ==
  /\ IF ~GroupAccess(groupId) THEN Rejected("join", groupId, "not_found")
     ELSE IF Archived(groupId) THEN Rejected("join", groupId, "archived")
     ELSE IF ~valid THEN Rejected("join", groupId, "invalid")
     ELSE /\ ParticipantCreate(groupId)
          /\ Served("join", groupId, "ok")
          /\ UNCHANGED <<exclusions, assignments, assignmentSeq, archived>>
  /\ UNCHANGED <<codecVars, settings, groups, engineVars, searchVars, mailVars>>

\* Participant.delete(id, groupId); the foreign keys of exclusions and
\* assignments are ON DELETE CASCADE
ParticipantDelete(id, groupId) ==
  LET gone == {p \in participants : p.id = id /\ p.group_id = groupId}
      goneIds == {p.id : p \in gone}
  IN /\ participants' = participants \ gone
     /\ exclusions' = {x \in exclusions : x[1] \notin goneIds /\ x[2] \notin goneIds}
     /\ assignments' = {a \in assignments : a.giver_id \notin goneIds}

\* POST /participants/:id/delete
DeleteParticipant(groupId, id) ==
  /\ IF ~GroupAccess(groupId) THEN Rejected("participants/delete", groupId, "not_found")
     ELSE IF Archived(groupId) THEN Rejected("participants/delete", groupId, "archived")
     ELSE IF DrawExistsByGroup(assignments, participants, groupId)
     THEN Rejected("participants/delete", groupId, "draw_exists")
     ELSE /\ ParticipantDelete(id, groupId)
          /\ Served("participants/delete", groupId, "ok")
          /\ UNCHANGED <<participantSeq, assignmentSeq, archived>>
  /\ UNCHANGED <<codecVars, settings, groups, engineVars, searchVars, mailVars>>

\* the values the form fields giver_id and receiver_id can carry for participant
\* i: its decimal digits, or the same with a leading zero; both select row i
\* (WHERE id = ?) and both parse to i.  The handler compares the two texts and
\* then uses only what they parse to, so what matters is whether the two
\* spellings differ: the leading zero is drawn for receiver_id only.
FormIds == {StringOf(i) : i \in 1..MaxParticipants}
PaddedFormIds == FormIds \cup {<<0>> \o StringOf(i) : i \in 1..MaxParticipants}

\* Participant.findByIdAndGroup(text, groupId)
FindByIdAndGroup(text, groupId) ==
  {p \in participants : p.id = ParseInt(text) /\ p.group_id = groupId}

\* POST /exclusions/add; Exclusion.create is INSERT OR IGNORE under UNIQUE
AddExclusion(groupId, giver_id, receiver_id) ==
  /\ IF ~GroupAccess(groupId) THEN Rejected("exclusions/add", groupId, "not_found")
     ELSE IF Archived(groupId) THEN Rejected("exclusions/add", groupId, "archived")
     ELSE IF DrawExistsByGroup(assignments, participants, groupId)
     THEN Rejected("exclusions/add", groupId, "draw_exists")
     ELSE IF giver_id = receiver_id THEN Rejected("exclusions/add", groupId, "self")
     ELSE IF FindByIdAndGroup(giver_id, groupId) = {}
             \/ FindByIdAndGroup(receiver_id, groupId) = {}
     THEN Rejected("exclusions/add", groupId, "invalid")
     ELSE /\ exclusions' = exclusions \cup {<<ParseInt(giver_id), ParseInt(receiver_id)>>}
          /\ Cardinality(exclusions') <= MaxExclusions
          /\ Served("exclusions/add", groupId, "ok")
          /\ UNCHANGED <<participants, participantSeq, assignments, assignmentSeq, archived>>
  /\ UNCHANGED <<codecVars, settings, groups, engineVars, searchVars, mailVars>>

\* the rows the :id of a request can name
ExclusionRows == (1..MaxParticipants) \X (1..MaxParticipants)

\* POST /exclusions/:id/delete; Exclusion.deleteByGroup removes the row when its
\* giver belongs to the group
DeleteExclusion(groupId, row) ==
  /\ IF ~GroupAccess(groupId) THEN Rejected("exclusions/delete", groupId, "not_found")
     ELSE IF Archived(groupId) THEN Rejected("exclusions/delete", groupId, "archived")
     ELSE IF DrawExistsByGroup(assignments, participants, groupId)
     THEN Rejected("exclusions/delete", groupId, "draw_exists")
     ELSE /\ exclusions' =
               exclusions \ {x \in {row} : x[1] \in GroupParticipantIds(participants, groupId)}
          /\ Served("exclusions/delete", groupId, "ok")
          /\ UNCHANGED <<participants, participantSeq, assignments, assignmentSeq, archived>>
  /\ UNCHANGED <<codecVars, settings, groups, engineVars, searchVars, mailVars>>

\* DrawService.performDraw(groupId), called in the current state of the store:
\* any of its results; `last` keeps the store and the roster size it found
PerformDrawCall(op, groupId) ==
  /\ assignmentSeq + Cardinality(GroupParticipantIds(participants, groupId))
       <= MaxAssignments
  /\ \E r \in PerformDrawResults(assignments, assignmentSeq, participants,
                                 exclusions, groupId) :
       /\ assignments' = r.store
       /\ assignmentSeq' = r.seq
       /\ last' = [op |-> op, group |-> groupId, outcome |-> r.kind,
                   thrown |-> r.thrown,
                   count |-> Cardinality(GroupParticipantIds(participants, groupId)),
                   inserted |-> r.inserted,
                   prior |-> assignments]
  /\ UNCHANGED <<participants, participantSeq, exclusions, archived>>

\* POST /draw/perform.  The handler has no try/catch: an error thrown by
\* performDraw reaches the general error handler of app.js (status 500).
PerformDraw(groupId) ==
  /\ IF ~GroupAccess(groupId) THEN Rejected("draw/perform", groupId, "not_found")
     ELSE IF Archived(groupId) THEN Rejected("draw/perform", groupId, "archived")
     ELSE IF DrawExistsByGroup(assignments, participants, groupId)
     THEN Rejected("draw/perform", groupId, "draw_exists")
     ELSE PerformDrawCall("draw/perform", groupId)
  /\ UNCHANGED <<codecVars, settings, groups, engineVars, searchVars, mailVars>>

\* POST /draw/reset
ResetDraw(groupId) ==
  /\ IF ~GroupAccess(groupId) THEN Rejected("draw/reset", groupId, "not_found")
     ELSE IF Archived(groupId) THEN Rejected("draw/reset", groupId, "archived")
     ELSE /\ assignments' = ClearAllByGroup(assignments, participants, groupId)
          /\ Served("draw/reset", groupId, "ok")
          /\ UNCHANGED <<participants, participantSeq, exclusions, assignmentSeq, archived>>
  /\ UNCHANGED <<codecVars, settings, groups, engineVars, searchVars, mailVars>>

\* POST /settings/archive, /settings/unarchive (Group.archive, Group.unarchive)
Archive(groupId) ==
  /\ IF ~GroupAccess(groupId) THEN Rejected("settings/archive", groupId, "not_found")
     ELSE /\ archived' = archived \cup {groupId}
          /\ Served("settings/archive", groupId, "ok")
          /\ UNCHANGED <<participants, participantSeq, exclusions, assignments,
                         assignmentSeq>>
  /\ UNCHANGED <<codecVars, settings, groups, engineVars, searchVars, mailVars>>

Unarchive(groupId) ==
  /\ IF ~GroupAccess(groupId) THEN Rejected("settings/unarchive", groupId, "not_found")
     ELSE /\ archived' = archived \ {groupId}
          /\ Served("settings/unarchive", groupId, "ok")
          /\ UNCHANGED <<participants, participantSeq, exclusions, assignments,
                         assignmentSeq>>
  /\ UNCHANGED <<codecVars, settings, groups, engineVars, searchVars, mailVars>>

\* Assignment.getForGiver: the row of the giver, decrypted
GetForGiver(store, giverId) ==
  LET rows == {a \in store : a.giver_id = giverId}
  IN IF rows = {} THEN {} ELSE {Head(SeqById(rows))}

\* GET /participant/:token with the edit token of participant `id`: the page
\* shows the participant whom they give to; an error of the lookup is caught
ParticipantPage(id) ==
  /\ \E p \in participants :
       /\ p.id = id
       /\ decrypts' = decrypts \cup {DecryptCall("participant", a)
                                     : a \in GetForGiver(assignments, id)}
  /\ UNCHANGED <<participants, participantSeq, exclusions, assignments, assignmentSeq,
                 archived, last>>
  /\ UNCHANGED <<encryptionKey, calls, delivered>>
  /\ UNCHANGED <<codecVars, settings, groups, engineVars, searchVars>>

\* the database after initialize(): the tables are empty; the organizer's groups
\* exist and none is archived
Init == EngineIdle /\ SearchIdle /\ WebIdle /\ MailIdle /\ CodecIdle

Next ==
  \/ \E g \in Groups, valid \in BOOLEAN : AddParticipant(g, valid)
  \/ \E g \in Groups, valid \in BOOLEAN : Join(g, valid)
  \/ \E g \in Groups, id \in 1..MaxParticipants : DeleteParticipant(g, id)
  \/ \E g \in Groups, giver_id \in FormIds, receiver_id \in PaddedFormIds :
       AddExclusion(g, giver_id, receiver_id)
  \/ \E g \in Groups, row \in ExclusionRows : DeleteExclusion(g, row)
  \/ \E g \in Groups : PerformDraw(g)
  \/ \E g \in Groups : ResetDraw(g)
  \/ \E g \in Groups : Archive(g)
  \/ \E g \in Groups : Unarchive(g)

Spec == Init /\ [][Next]_vars

\* ------------------------------------------------------------ the organizer's pages
\* Participant.findAllByGroup / countByGroup
FindAllByGroup(parts, groupId) == {p \in parts : p.group_id = groupId}
CountByGroup(parts, groupId) == Cardinality(FindAllByGroup(parts, groupId))

\* Exclusion.findAllByGroup: the rows whose giver is of the group, joined with
\* both participants
ExclusionFindAllByGroup(excl, parts, groupId) ==
  {x \in excl : /\ x[1] \in GroupParticipantIds(parts, groupId)
                /\ x[2] \in {p.id : p \in parts}}

\* Assignment.findAllForGroup: a.id, a.giver_id, a.email_sent of the rows whose
\* giver is of the group (created_at, giver_name and giver_email follow from
\* the row and its giver); encrypted_receiver and receiver_hash are not selected
FindAllForGroup(store, parts, groupId) ==
  {[id |-> a.id, giver_id |-> a.giver_id, email_sent |-> a.email_sent]
   : a \in GroupAssignments(store, parts, groupId)}

\* DrawService.canPerformDraw: the answers the call can give (the loop returns
\* at the first blocked participant of the query's order, which is any of the
\* blocked ones when created_at ties)
CanPerformDraw(parts, excl, groupId) ==
  LET ids == GroupParticipantIds(parts, groupId)
      exclusionMap == {x \in excl : x[1] \in ids}
      blocked == {p \in ids :
                    Cardinality(ids) - 1
                      - Cardinality({x \in exclusionMap : x[1] = p}) < 1}
  IN IF Cardinality(ids) < 2
     THEN {[possible |-> FALSE, reason |-> <<"Pas assez de participants">>]}
     ELSE IF blocked # {}
     THEN {[possible |-> FALSE, reason |-> <<p, "n'a aucun receveur possible">>]
           : p \in blocked}
     ELSE {[possible |-> TRUE, reason |-> <<>>]}

\* GET / : what the handler hands to the dashboard page (smtpConfigured comes
\* from the environment, not from the store)
DashboardView(store, parts, groupId) ==
  [participants |-> FindAllByGroup(parts, groupId),
   drawExists |-> DrawExistsByGroup(store, parts, groupId),
   pendingEmails |-> CountPendingEmailsByGroup(store, parts, groupId),
   sentEmails |-> CountSentEmailsByGroup(store, parts, groupId)]

\* GET /exclusions
ExclusionsView(store, parts, excl, groupId) ==
  [participants |-> FindAllByGroup(parts, groupId),
   exclusions |-> ExclusionFindAllByGroup(excl, parts, groupId),
   drawExists |-> DrawExistsByGroup(store, parts, groupId)]

\* GET /draw
DrawView(store, parts, excl, groupId) ==
  [participantCount |-> CountByGroup(parts, groupId),
   drawExists |-> DrawExistsByGroup(store, parts, groupId),
   assignments |-> IF DrawExistsByGroup(store, parts, groupId)
                   THEN FindAllForGroup(store, parts, groupId) ELSE {},
   canDraw |-> CanPerformDraw(parts, excl, groupId),
   pendingEmails |-> CountPendingEmailsByGroup(store, parts, groupId),
   sentEmails |-> CountSentEmailsByGroup(store, parts, groupId)]

\* every page of every group, with the flash message of a draw result
OrganizerViews(store, parts, excl, kind, count) ==
  [g \in Groups |-> [dashboard |-> DashboardView(store, parts, g),
                     exclusions |-> ExclusionsView(store, parts, excl, g),
                     draw |-> DrawView(store, parts, excl, g),
                     flash |-> Message(kind, count)]]

\* ------------------------------------------------------------ SpecPerform
\* performDraw as the operation the service exports: the requests of Spec bring
\* the store to any state it can be in, and performDraw may be called in any of
\* them (the function has no precondition of its own; the draw-exists check
\* belongs to the route handlers)
CallPerformDraw(groupId) ==
  /\ PerformDrawCall("performDraw", groupId)
  /\ UNCHANGED <<codecVars, settings, groups, engineVars, searchVars, mailVars>>

NextPerform ==
  \/ \E g \in Groups, valid \in BOOLEAN : AddParticipant(g, valid)
  \/ \E g \in Groups, valid \in BOOLEAN : Join(g, valid)
  \/ \E g \in Groups, id \in 1..MaxParticipants : DeleteParticipant(g, id)
  \/ \E g \in Groups, giver_id \in FormIds, receiver_id \in PaddedFormIds :
       AddExclusion(g, giver_id, receiver_id)
  \/ \E g \in Groups, row \in ExclusionRows : DeleteExclusion(g, row)
  \/ \E g \in Groups : PerformDraw(g)
  \/ \E g \in Groups : ResetDraw(g)
  \/ \E g \in Groups : Archive(g)
  \/ \E g \in Groups : Unarchive(g)
  \/ \E g \in Groups : CallPerformDraw(g)

SpecPerform == Init /\ [][NextPerform]_vars

\* ------------------------------------------------------------ the mail path
\* findAllDecryptedByGroup, lines 138-147: one element of the mapped array;
\* receiver is the participant row found for the decrypted id, if any
DecryptedRow(a, receiverId) ==
  [id |-> a.id, giver_id |-> a.giver_id, email_sent |-> a.email_sent,
   receiver_id |-> receiverId,
   receiver |-> receiverId \in {p.id : p \in participants}]

\* findAllDecryptedByGroup, lines 136-147: map over the rows; every row is
\* decrypted, and a throw of decrypt ends the map.  The value is the set of
\* outcomes: whether it threw, the mapped rows, the decrypt calls made.
RECURSIVE DecryptRows(_)
DecryptRows(rows) ==
  IF rows = <<>> THEN {[thrown |-> FALSE, rows |-> <<>>, log |-> {}]}
  ELSE LET a == Head(rows)
       IN UNION {
            IF d.thrown
            THEN {[thrown |-> TRUE, rows |-> <<>>, log |-> {DecryptCall("mail", a)}]}
            ELSE {[thrown |-> rest.thrown,
                   rows |-> IF rest.thrown THEN <<>>
                            ELSE <<DecryptedRow(a, d.value)>> \o rest.rows,
                   log |-> {DecryptCall("mail", a)} \cup rest.log]
                  : rest \in DecryptRows(Tail(rows))}
            : d \in Decrypt(a.encrypted_receiver)}

FindAllDecryptedByGroup(store, parts, groupId) ==
  DecryptRows(SeqById(GroupAssignments(store, parts, groupId)))

\* sendAllEmails, line 342: the filter of the rows to send
IsPendingAlways(a) == TRUE
IsPending(a) == ~a.email_sent

\* Assignment.markEmailSent: UPDATE assignments SET email_sent = 1 WHERE id = ?
MarkEmailSent(store, id) ==
  {IF a.id = id THEN [a EXCEPT !.email_sent = TRUE] ELSE a : a \in store}

\* sendEmail, lines 225-226: the row is marked once sendMail has resolved; a
\* rejected sendMail throws past the mark
SendEmailMarksAlways(store, id, ok) == MarkEmailSent(store, id)
SendEmailMarksNever(store, id, ok) == store
SendEmailDone(store, id, ok) == IF ok THEN MarkEmailSent(store, id) ELSE store

\* sendAllEmails, lines 365-372: a failure is counted and the loop goes on with
\* the assignments that are left
AbortBatch(rest) == <<>>
AfterFailure(rest) == rest

\* sendAllEmails, lines 359-382, from the top of an iteration to the next await
\* or to the return.  sendEmail composes the message first (lines 211-222): for
\* a row without receiver generateTextContent throws, which counts as a failure
\* of that assignment, and the loop goes on in the same turn.  Otherwise the
\* message is handed to the transport and the call waits for sendMail.
RECURSIVE Iterate(_)
Iterate(call) ==
  IF call.pending = <<>>
  THEN [call EXCEPT !.pc = "done", !.success = (call.failed = 0)]
  ELSE IF Head(call.pending).receiver
  THEN [call EXCEPT !.pc = "awaiting"]
  ELSE Iterate([call EXCEPT !.pending = AfterFailure(Tail(call.pending)),
                            !.failed = call.failed + 1,
                            !.errors = Append(call.errors, Head(call.pending).giver_id)])

\* sendAllEmails, lines 341-357: the call with its pending assignments, before
\* the first iteration
NewCall(groupId, rows) ==
  [pc |-> "loop", group |-> groupId, pending |-> SelectSeq(rows, IsPending),
   atStart |-> {a.id : a \in {rows[i] : i \in {j \in 1..Len(rows) : ~rows[j].email_sent}}},
   sent |-> 0, failed |-> 0, errors |-> <<>>, success |-> TRUE]

\* ------------------------------------------------------------ SpecMail
\* bound: participants of the groups in SpecMail
MaxMailParticipants == 3

\* bound: times ENCRYPTION_KEY is changed between two runs of the process
MaxRotations == 1


\* POST /draw/send-emails up to its first await.  `configured`: SMTP_HOST,
\* SMTP_USER and SMTP_PASS are set (MailerService.isConfigured).  Call c is the
\* sendAllEmails call this request makes.
SendEmails(c, groupId, configured) ==
  /\ calls[c].pc = "idle" /\ \A d \in 1..(c - 1) : calls[d].pc # "idle"
  /\ IF ~GroupAccess(groupId)
     THEN Rejected("draw/send-emails", groupId, "not_found")
          /\ UNCHANGED <<calls, decrypts>>
     ELSE IF Archived(groupId)
     THEN Rejected("draw/send-emails", groupId, "archived")
          /\ UNCHANGED <<calls, decrypts>>
     ELSE IF ~DrawExistsByGroup(assignments, participants, groupId)
     THEN Rejected("draw/send-emails", groupId, "no_draw")
          /\ UNCHANGED <<calls, decrypts>>
     ELSE IF ~configured
     THEN Rejected("draw/send-emails", groupId, "smtp_not_configured")
          /\ UNCHANGED <<calls, decrypts>>
     ELSE \E found \in FindAllDecryptedByGroup(assignments, participants, groupId) :
            /\ decrypts' = decrypts \cup found.log
            /\ IF found.thrown
               THEN \* caught by the handler (lines 283-287)
                    /\ Served("draw/send-emails", groupId, "error")
                    /\ UNCHANGED calls
               ELSE /\ calls' = [calls EXCEPT ![c] = Iterate(NewCall(groupId, found.rows))]
                    /\ Served("draw/send-emails", groupId, "called")
            /\ UNCHANGED <<participants, participantSeq, exclusions, assignments,
                           assignmentSeq, archived>>
  /\ UNCHANGED <<encryptionKey, delivered>>
  /\ UNCHANGED <<codecVars, settings, groups, engineVars, searchVars>>

\* transporter.sendMail of call c settles: resolved (`ok`, the message is
\* delivered) or rejected; sendEmail and the loop of sendAllEmails go on to the
\* next await or to the return
Deliver(c, ok) ==
  /\ calls[c].pc = "awaiting"
  /\ LET call == calls[c]
         a == Head(call.pending)
     IN /\ delivered' = IF ok THEN delivered \cup {[id |-> a.id, giver_id |-> a.giver_id,
                                                        receiver_id |-> a.receiver_id,
                                                        call |-> c]}
                        ELSE delivered
        /\ assignments' = SendEmailDone(assignments, a.id, ok)
        /\ calls' = [calls EXCEPT ![c] =
             Iterate(IF ok
                     THEN [call EXCEPT !.pending = Tail(call.pending),
                                       !.sent = call.sent + 1]
                     ELSE [call EXCEPT !.pending = AfterFailure(Tail(call.pending)),
                                       !.failed = call.failed + 1,
                                       !.errors = Append(call.errors, a.giver_id)])]
  /\ UNCHANGED <<participants, participantSeq, exclusions, assignmentSeq, archived, last>>
  /\ UNCHANGED <<encryptionKey, decrypts>>
  /\ UNCHANGED <<codecVars, settings, groups, engineVars, searchVars>>

\* the process is stopped between requests and started again with ENCRYPTION_KEY
\* set to the next key
Restart(i) ==
  /\ \A c \in 1..MaxCalls : calls[c].pc # "awaiting"
  /\ encryptionKey = Key(i - 1)
  /\ encryptionKey' = Key(i)
  /\ last' = NoRequest
  /\ UNCHANGED <<participants, participantSeq, exclusions, assignments, assignmentSeq,
                 archived>>
  /\ UNCHANGED <<calls, delivered, decrypts>>
  /\ UNCHANGED <<codecVars, settings, groups, engineVars, searchVars>>

\* the groups have their participants (registered as in Spec), no exclusion and
\* no draw yet
InitMail ==
  /\ \E n \in 2..MaxMailParticipants : \E groupOf \in [1..n -> Groups] :
       /\ participants = {[id |-> i, group_id |-> groupOf[i]] : i \in 1..n}
       /\ participantSeq = n
  /\ exclusions = {} /\ assignments = {} /\ assignmentSeq = 0 /\ archived = {}
  /\ groups = Groups /\ settings = InitialSettings
  /\ last = NoRequest
  /\ EngineIdle /\ SearchIdle /\ MailIdle /\ CodecIdle

NextMail ==
  \/ \E g \in Groups : PerformDraw(g)
  \/ \E g \in Groups : ResetDraw(g)
  \/ \E c \in 1..MaxCalls, g \in Groups, configured \in BOOLEAN : SendEmails(c, g, configured)
  \/ \E c \in 1..MaxCalls, ok \in BOOLEAN : Deliver(c, ok)
  \/ \E i \in 1..MaxRotations : Restart(i)

SpecMail == InitMail /\ [][NextMail]_vars

\* ------------------------------------------------------------ SpecReset
\* bound: participants of the groups in SpecReset, enough for two groups that
\* both hold a draw
MaxResetParticipants == 4

\* bound: exclusion rows of the groups in SpecReset
MaxResetExclusions == 1

\* the first k participants registered in the first group, the others in the
\* last one; the exclusions were added before any draw (POST /exclusions/add
\* takes two different participants of one group)
InitReset ==
  /\ \E k \in 2..(MaxResetParticipants - 1) :
       participants = {[id |-> i, group_id |-> IF i <= k THEN 1 ELSE NumGroups]
                       : i \in 1..MaxResetParticipants}
  /\ participantSeq = MaxResetParticipants
  /\ exclusions \in AtMost({<<p.id, q.id>> : p \in participants, q \in participants}, MaxResetExclusions)
  /\ \A x \in exclusions :
       /\ x[1] # x[2]
       /\ \E p \in participants, q \in participants :
            p.id = x[1] /\ q.id = x[2] /\ p.group_id = q.group_id
  /\ assignments = {} /\ assignmentSeq = 0 /\ archived = {} /\ groups = Groups /\ settings = InitialSettings
  /\ last = NoRequest
  /\ EngineIdle /\ SearchIdle /\ MailIdle /\ CodecIdle

\* draws, mail and resets over two groups
NextReset ==
  \/ \E g \in Groups : PerformDraw(g)
  \/ \E g \in Groups : ResetDraw(g)
  \/ \E c \in 1..MaxCalls, g \in Groups, configured \in BOOLEAN : SendEmails(c, g, configured)
  \/ \E c \in 1..MaxCalls, ok \in BOOLEAN : Deliver(c, ok)

SpecReset == InitReset /\ [][NextReset]_vars

\* ------------------------------------------------------------ SpecDelete
\* Group.delete (models/group.js): the assignments and the exclusions of the
\* group's givers, its participants, the group row.  With foreign_keys = ON the
\* delete of the participants also cascades to the exclusion rows that name one
\* of them as receiver.
GroupDeleteRowOnly(id) ==
  /\ groups' = groups \ {id}
  /\ archived' = archived \ {id}
  /\ UNCHANGED <<participants, exclusions, assignments>>
GroupDelete(id) ==
  LET goneIds == GroupParticipantIds(participants, id)
  IN /\ assignments' = {a \in assignments : a.giver_id \notin goneIds}
     /\ exclusions' = {x \in exclusions : x[1] \notin goneIds /\ x[2] \notin goneIds}
     /\ participants' = {p \in participants : p.group_id # id}
     /\ groups' = groups \ {id}
     /\ archived' = archived \ {id}

\* POST /organizer/groups/:id/delete
DeleteGroup(groupId) ==
  /\ IF ~GroupAccess(groupId)
     THEN /\ Rejected("groups/delete", groupId, "not_found")
          /\ UNCHANGED groups
     ELSE /\ GroupDelete(groupId)
          /\ Served("groups/delete", groupId, "ok")
          /\ UNCHANGED <<participantSeq, assignmentSeq>>
  /\ UNCHANGED <<codecVars, settings, engineVars, searchVars, mailVars>>

\* draws, resets and deletions of groups
NextDelete ==
  \/ \E g \in Groups : PerformDraw(g)
  \/ \E g \in Groups : ResetDraw(g)
  \/ \E g \in Groups : DeleteGroup(g)

SpecDelete == InitReset /\ [][NextDelete]_vars

\* ------------------------------------------------------------ SpecStart
\* what process.env.ENCRYPTION_KEY can hold when the process is started: not
\* set, the empty string, a text that has not the required length, a key as
\* deployed
Unset == <<"undefined", 0>>
EmptyKey == <<"", 0>>
WrongLengthKey == <<"WRONG_LENGTH", 0>>
Environment == {Unset, EmptyKey, WrongLengthKey, EncryptionKey}

\* assignment.js, line 4: the fallback of the module constant
DefaultKey == <<"default_key_32_characters_long!", 0>>

\* encryptionKey while no process runs
Stopped == <<"stopped", 0>>

Running == encryptionKey # Stopped

\* app.js, lines 13-20: !process.env[varName] ends the process
RequiredEnvVars(env) == env \notin {Unset, EmptyKey}

\* assignment.js, line 4: process.env.ENCRYPTION_KEY || default
ModuleKey(env) == IF env \in {Unset, EmptyKey} THEN DefaultKey ELSE env

\* node app.js with ENCRYPTION_KEY = env: the check of the required variables,
\* then the modules are loaded and the server listens
Start(env) ==
  /\ ~Running
  /\ IF RequiredEnvVars(env)
     THEN encryptionKey' = ModuleKey(env) /\ Served("start", 0, "listening")
     ELSE encryptionKey' = Stopped /\ Served("start", 0, "exit")
  /\ UNCHANGED <<participants, participantSeq, exclusions, assignments, assignmentSeq,
                 archived, groups>>
  /\ UNCHANGED <<calls, delivered, decrypts>>
  /\ UNCHANGED <<codecVars, settings, engineVars, searchVars>>

\* the process is stopped
Stop ==
  /\ Running
  /\ encryptionKey' = Stopped
  /\ last' = NoRequest
  /\ UNCHANGED <<participants, participantSeq, exclusions, assignments, assignmentSeq,
                 archived, groups>>
  /\ UNCHANGED <<calls, delivered, decrypts>>
  /\ UNCHANGED <<codecVars, settings, engineVars, searchVars>>

\* requests are served by a running process
RunningPerformDraw(groupId) == Running /\ PerformDraw(groupId)
RunningResetDraw(groupId) == Running /\ ResetDraw(groupId)

\* the database holds the participants; no process runs yet
InitStart ==
  /\ \E n \in 2..MaxMailParticipants : \E groupOf \in [1..n -> Groups] :
       /\ participants = {[id |-> i, group_id |-> groupOf[i]] : i \in 1..n}
       /\ participantSeq = n
  /\ exclusions = {} /\ assignments = {} /\ assignmentSeq = 0 /\ archived = {}
  /\ groups = Groups /\ settings = InitialSettings
  /\ last = NoRequest
  /\ encryptionKey = Stopped /\ calls = [c \in 1..MaxCalls |-> NoCall]
  /\ delivered = {} /\ decrypts = {}
  /\ EngineIdle /\ SearchIdle /\ CodecIdle

NextStart ==
  \/ \E env \in Environment : Start(env)
  \/ Stop
  \/ \E g \in Groups : RunningPerformDraw(g)
  \/ \E g \in Groups : RunningResetDraw(g)

SpecStart == InitStart /\ [][NextStart]_vars

\* ------------------------------------------------------------ SpecCodec
\* bound: the largest receiver id given to encrypt (ids of one, two and three
\* digits)
MaxReceiverId == 120

\* a receiver id of the draw: the id of a participant row
InitCodec ==
  /\ c_receiverId \in 1..MaxReceiverId
  /\ c_encrypted = NoCiphertext /\ c_decrypted = NoValue
  /\ EngineIdle /\ SearchIdle /\ WebIdle /\ MailIdle

\* createMany, line 51: Assignment.encrypt(a.receiverId)
CodecEncrypt ==
  /\ c_encrypted = NoCiphertext
  /\ c_encrypted' = Encrypt(c_receiverId)
  /\ UNCHANGED <<c_receiverId, c_decrypted>>
  /\ UNCHANGED <<engineVars, searchVars, webVars, mailVars>>

\* findAllDecryptedByGroup, line 139: this.decrypt(a.encrypted_receiver)
CodecDecrypt ==
  /\ c_encrypted # NoCiphertext /\ c_decrypted = NoValue
  /\ \E d \in Decrypt(c_encrypted) : c_decrypted' = d
  /\ UNCHANGED <<c_receiverId, c_encrypted>>
  /\ UNCHANGED <<engineVars, searchVars, webVars, mailVars>>

NextCodec == CodecEncrypt \/ CodecDecrypt

SpecCodec == InitCodec /\ [][NextCodec]_vars

\* ------------------------------------------------------------ SpecRetry
\* POST /draw/send-emails after the await: sendAllEmails has returned, the
\* handler flashes the result and redirects; nothing is kept of the call
Return(c) ==
  /\ calls[c].pc = "done"
  /\ calls' = [calls EXCEPT ![c] = NoCall]
  /\ UNCHANGED <<participants, participantSeq, exclusions, assignments, assignmentSeq,
                 archived, last>>
  /\ UNCHANGED <<encryptionKey, delivered, decrypts>>
  /\ UNCHANGED <<codecVars, settings, groups, engineVars, searchVars>>

\* sendMail of call c settles for the message composed from row `id`
DeliverRow(c, id, ok) ==
  /\ calls[c].pc = "awaiting" /\ Head(calls[c].pending).id = id
  /\ Deliver(c, ok)

\* bound: participants of the group that draws in SpecRetry
MaxRetryParticipants == 3

\* bound: send-emails requests in progress at one time in SpecRetry
MaxRetryCalls == 1

\* the first group has its participants, the other groups have none yet
InitRetry ==
  /\ \E n \in 2..MaxRetryParticipants :
       /\ participants = {[id |-> i, group_id |-> 1] : i \in 1..n}
       /\ participantSeq = n
  /\ exclusions = {} /\ assignments = {} /\ assignmentSeq = 0 /\ archived = {}
  /\ groups = Groups /\ settings = InitialSettings
  /\ last = NoRequest
  /\ EngineIdle /\ SearchIdle /\ MailIdle /\ CodecIdle

\* draws and send-emails requests repeated at will: no reset, no restart
NextRetry ==
  \/ \E g \in Groups : PerformDraw(g)
  \/ \E c \in 1..MaxRetryCalls, g \in Groups, configured \in BOOLEAN : SendEmails(c, g, configured)
  \/ \E c \in 1..MaxRetryCalls, ok \in BOOLEAN : Deliver(c, ok)
  \/ \E c \in 1..MaxRetryCalls : Return(c)

\* The event loop runs what is ready: a pending sendMail settles and a call
\* that is over returns (weak fairness).  The organizer keeps sending
\* send-emails requests with SMTP configured for every group, and a delivery
\* that is tried again and again succeeds at some time (strong fairness, per
\* call slot and row).
SpecRetry ==
  /\ InitRetry /\ [][NextRetry]_vars
  /\ \A c \in 1..MaxRetryCalls :
       /\ WF_vars(\E ok \in BOOLEAN : Deliver(c, ok))
       /\ WF_vars(Return(c))
  /\ \A id \in 1..MaxAssignments :
       SF_vars(\E c \in 1..MaxRetryCalls : DeliverRow(c, id, TRUE))
  /\ \A g \in Groups : SF_vars(\E c \in 1..MaxRetryCalls : SendEmails(c, g, TRUE))

\* ------------------------------------------------------------ SpecArchive
\* the names the settings form can carry: two that pass the length test of
\* line 301 and the empty one
GroupNames == {"Noel", "Famille"}
FormNames == GroupNames \cup {""}

\* Group.update: only the name is written
GroupUpdate(id, name) == settings' = [settings EXCEPT ![id].name = name]

\* POST /settings/update
UpdateSettings(groupId, name) ==
  /\ IF ~GroupAccess(groupId)
     THEN Rejected("settings/update", groupId, "not_found") /\ UNCHANGED settings
     ELSE IF Archived(groupId)
     THEN Rejected("settings/update", groupId, "archived") /\ UNCHANGED settings
     ELSE IF name \notin GroupNames
     THEN Rejected("settings/update", groupId, "invalid") /\ UNCHANGED settings
     ELSE /\ GroupUpdate(groupId, name)
          /\ Served("settings/update", groupId, "ok")
          /\ UNCHANGED <<participants, participantSeq, exclusions, assignments,
                         assignmentSeq, archived>>
  /\ UNCHANGED <<codecVars, groups, engineVars, searchVars, mailVars>>

\* bound: codes generated for a group after its first one
MaxCodes == 1

\* Group.updateCode: a new random code; the column is UNIQUE, so a code that is
\* already in the table makes the UPDATE throw (`collides`)
GroupUpdateCode(id) ==
  /\ settings[id].code[2] < MaxCodes
  /\ settings' = [settings EXCEPT ![id].code = <<id, @[2] + 1>>]

\* POST /settings/regenerate-code; an error of updateCode is caught
RegenerateCode(groupId, collides) ==
  /\ IF ~GroupAccess(groupId)
     THEN Rejected("settings/regenerate-code", groupId, "not_found") /\ UNCHANGED settings
     ELSE IF Archived(groupId)
     THEN Rejected("settings/regenerate-code", groupId, "archived") /\ UNCHANGED settings
     ELSE IF collides
     THEN Rejected("settings/regenerate-code", groupId, "error") /\ UNCHANGED settings
     ELSE /\ GroupUpdateCode(groupId)
          /\ Served("settings/regenerate-code", groupId, "ok")
          /\ UNCHANGED <<participants, participantSeq, exclusions, assignments,
                         assignmentSeq, archived>>
  /\ UNCHANGED <<codecVars, groups, engineVars, searchVars, mailVars>>

\* bound: groups that receive requests in SpecArchive
MaxArchiveGroups == 1

\* every request of the group router that requireNotArchived guards, the
\* registration through the invitation code, archive and unarchive.  The form
\* ids are spelled without padding and the transport accepts every message
\* (neither a padded id nor a rejected sendMail meets requireNotArchived).
NextArchive ==
  \/ \E g \in 1..MaxArchiveGroups, valid \in BOOLEAN : AddParticipant(g, valid)
  \/ \E g \in 1..MaxArchiveGroups, valid \in BOOLEAN : Join(g, valid)
  \/ \E g \in 1..MaxArchiveGroups, id \in 1..MaxParticipants : DeleteParticipant(g, id)
  \/ \E g \in 1..MaxArchiveGroups, giver_id \in FormIds, receiver_id \in FormIds :
       AddExclusion(g, giver_id, receiver_id)
  \/ \E g \in 1..MaxArchiveGroups, row \in ExclusionRows : DeleteExclusion(g, row)
  \/ \E g \in 1..MaxArchiveGroups : PerformDraw(g)
  \/ \E g \in 1..MaxArchiveGroups : ResetDraw(g)
  \/ \E c \in 1..MaxRetryCalls, g \in 1..MaxArchiveGroups, configured \in BOOLEAN : SendEmails(c, g, configured)
  \/ \E c \in 1..MaxRetryCalls : Deliver(c, TRUE)
  \/ \E g \in 1..MaxArchiveGroups, name \in FormNames : UpdateSettings(g, name)
  \/ \E g \in 1..MaxArchiveGroups, collides \in BOOLEAN : RegenerateCode(g, collides)
  \/ \E g \in 1..MaxArchiveGroups : Archive(g)
  \/ \E g \in 1..MaxArchiveGroups : Unarchive(g)

SpecArchive == InitRetry /\ [][NextArchive]_vars

\* ------------------------------------------------- the participant's page
\* the requests of a drawn group's participants: the organizer draws or
\* resets, the participants open the page of their edit link
NextPage ==
  \/ \E g \in Groups : PerformDraw(g)
  \/ \E g \in Groups : ResetDraw(g)
  \/ \E id \in 1..MaxMailParticipants : ParticipantPage(id)

SpecPage == InitMail /\ [][NextPage]_vars

\* ------------------------------------------------------------ C1 .. C3
\* the receiver the assignment list gives to each giver
ReceiverOf(a) ==
  [p \in {a[i].giverId : i \in 1..Len(a)} |->
     a[CHOOSE i \in 1..Len(a) : a[i].giverId = p].receiverId]
RECURSIVE Walk(_, _, _)
\* the participants reached from p after 1, 2, .. k giver -> receiver steps
Walk(next, p, k) ==
  IF k = 0 THEN <<>>
  ELSE LET before == Walk(next, p, k - 1)
       IN Append(before, next[IF k = 1 THEN p ELSE before[k - 1]])

OnceAsGiver(a, p) == Cardinality({i \in 1..Len(a) : a[i].giverId = p}) = 1
OnceAsReceiver(a, p) == Cardinality({i \in 1..Len(a) : a[i].receiverId = p}) = 1

\* C1: a successful draw over n >= 2 participants returns exactly n pairs, every
\* participant once as giver and once as receiver, no pair with giver = receiver,
\* and the giver -> receiver pointers from any participant visit all n
\* participants before returning to the start (one cycle, no shorter sub-cycle).
C1_SingleCycle ==
  e_result.success =>
    LET a == e_result.assignments
        n == Cardinality(e_ids)
    IN /\ Len(a) = n
       /\ \A p \in e_ids : OnceAsGiver(a, p) /\ OnceAsReceiver(a, p)
       /\ \A i \in 1..n : a[i].giverId # a[i].receiverId
       /\ \A p \in e_ids :
            LET visited == Walk(ReceiverOf(a), p, n)
            IN /\ Range(visited) = e_ids
               /\ visited[n] = p
               /\ \A k \in 1..(n - 1) : visited[k] # p

\* a draw of four participants under exclusion rules succeeded (four is the least
\* roster that two disjoint swaps could cover)
C1_Witness ==
  e_result.success /\ Cardinality(e_ids) = 4 /\ \E x \in e_excl : x[1] # x[2]

\* C2: no pair of a successful draw is an exclusion row, the closing pair from
\* the last element of the cycle back to the first included.
C2_NoExcludedPair ==
  e_result.success =>
    \A i \in 1..Len(e_result.assignments) :
      <<e_result.assignments[i].giverId, e_result.assignments[i].receiverId>> \notin e_excl

\* a successful draw whose first element is an excluded receiver of another
\* participant: the closing check had a pair to refuse
C2_Witness ==
  /\ e_result.success
  /\ \E x \in e_excl : x[1] # x[2] /\ x[2] = e_result.assignments[1].giverId

\* an exclusion-respecting single cycle over all of ids exists (every ordering tried)
HamiltonianCycleExists(ids, excl) ==
  LET n == Cardinality(ids)
  IN \E f \in [1..n -> ids] :
       /\ \A i, j \in 1..n : i # j => f[i] # f[j]
       /\ \A i \in 1..n : /\ f[i] # f[(i % n) + 1]
                          /\ <<f[i], f[(i % n) + 1]>> \notin excl

\* C3: the draw never reports failure on a roster of at least 2 for which an
\* exclusion-respecting single cycle exists, whatever the shuffles choose.
C3_FeasibleNeverFails ==
  (e_result.returned /\ ~e_result.success) => ~HamiltonianCycleExists(e_ids, e_excl)

\* some partial cycle of two elements cannot be completed: the search has to
\* back out of it
DeadEndExists(ids, excl) ==
  \E first \in ids : \E r \in Possible(ids, excl, first) :
    NoCycle \in Backtrack(<<first, r>>, Cardinality(ids), CanGiveTo(ids, excl))

\* a draw succeeded on an input where some branches of the search fail
C3_Witness ==
  e_result.success /\ DeadEndExists(e_ids, e_excl)

\* ------------------------------------------------------------ C9
\* C9: the draw terminates on every input, makes at most 100 calls of
\* tryBuildCycle, and every attempt's backtracking search comes to an end.
C9_TerminatesWithinBudget ==
  /\ [](s_calls <= 100)
  /\ <>(s_pc = "done")
  /\ (s_pc = "search") ~> (s_pc # "search")

\* the whole budget was spent on an input without a cycle, and the call returned
C9_Witness ==
  s_pc = "done" /\ ~s_result.success /\ s_calls = 100


\* ------------------------------------------------------------ C4 .. C8
\* C4: when persisting the new assignment set fails part-way, the store reads
\* back exactly the assignment set that existed before performDraw was called.
C4_PriorStateIntact ==
  last.outcome = "persist_error" => assignments = last.prior

\* the part of C4 the transaction of createMany does give: under the route
\* handlers (which call performDraw only when the scope has no row) a failed
\* insert leaves no row behind and the store as it was
C4_InsertsRolledBack ==
  (last.op = "draw/perform" /\ last.outcome = "persist_error")
    => /\ assignments = last.prior
       /\ ~DrawExistsByGroup(assignments, participants, last.group)

C4_RolledBackWitness ==
  /\ last.op = "draw/perform" /\ last.outcome = "persist_error"
  /\ last.inserted >= 1

\* C5: whenever a draw exists for a group, every participant of the group has
\* exactly one assignment row as giver.
RowsOfGiver(id) == {a \in assignments : a.giver_id = id}

C5_OneRowPerParticipant ==
  \A g \in Groups :
    DrawExistsByGroup(assignments, participants, g)
      => \A id \in GroupParticipantIds(participants, g) : Cardinality(RowsOfGiver(id)) = 1

\* C6: when performDraw fails for too few participants or for want of a cycle,
\* the store after the call equals the store before it, and the failure is a
\* returned result, not a thrown error.
C6_FailureLeavesStore ==
  (last.op = "draw/perform" /\ last.outcome \in {"insufficient", "no_valid_cycle"})
    => /\ assignments = last.prior
       /\ ~last.thrown

C6_Witness ==
  /\ last.op = "draw/perform" /\ last.outcome = "no_valid_cycle"
  /\ \E g \in Groups : g # last.group /\ GroupParticipantIds(participants, g) # {}

\* C7: performDraw on a scope of 0 or 1 participants returns the
\* insufficient-participants failure and persists nothing.
C7_TooFewIsInsufficient ==
  (last.op = "draw/perform" /\ last.outcome \notin {"archived", "draw_exists"}
     /\ last.count < 2)
    => /\ last.outcome = "insufficient"
       /\ assignments = last.prior
       /\ ~DrawExistsByGroup(assignments, participants, last.group)

C7_Witness ==
  /\ last.op = "draw/perform" /\ last.outcome = "insufficient" /\ last.count = 1

\* C8: when (of at least two participants) one has no eligible receiver left
\* after the exclusions, performDraw returns the no-valid-cycle failure.
C8_Eligible(ids, giver) == {r \in ids \ {giver} : <<giver, r>> \notin exclusions}

C8_EmptyEligibleFails ==
  LET ids == GroupParticipantIds(participants, last.group)
  IN (last.op = "draw/perform" /\ last.outcome \notin {"archived", "draw_exists"}
        /\ last.count >= 2 /\ \E giver \in ids : C8_Eligible(ids, giver) = {})
       => last.outcome = "no_valid_cycle"

C8_Witness ==
  LET ids == GroupParticipantIds(participants, last.group)
  IN /\ last.op = "draw/perform" /\ last.outcome = "no_valid_cycle"
     /\ last.count = 3 /\ \E giver \in ids : C8_Eligible(ids, giver) = {}

\* ------------------------------------------------------------ C10
\* who gives to whom in a store: the secret of the draw
\* (read off the plaintext the ciphertext was made from)
ReceiverOfRow(a) == ParseInt(a.encrypted_receiver.plaintext)
ReceiverMap(store) == {<<a.giver_id, ReceiverOfRow(a)>> : a \in store}

\* the stores the last successful POST /draw/perform could have left as well,
\* had the shuffles fallen otherwise, in which some giver has another receiver
OtherDraws ==
  {r \in PerformDrawResults(last.prior, assignmentSeq - last.inserted, participants,
                            exclusions, last.group) :
     r.kind = "success" /\ ReceiverMap(r.store) # ReceiverMap(assignments)}

\* C10: for two stores that differ in which receiver each giver was assigned,
\* every response the organizer can get (dashboard, exclusions page, draw page,
\* flash message) is identical.
C10_ViewsIndependentOfReceivers ==
  (last.op = "draw/perform" /\ last.outcome = "success")
    => \A r \in OtherDraws :
         OrganizerViews(r.store, participants, exclusions, r.kind, last.count)
           = OrganizerViews(assignments, participants, exclusions, last.outcome, last.count)

\* C10, last part: what the organizer sees about a draw is limited to
\* draw-exists and the sent and pending counts.
C10_OnlyAggregates ==
  \A g \in Groups : DrawView(assignments, participants, exclusions, g).assignments = {}

\* what the pages do keep back: no page carries a receiver, in clear or
\* encrypted, as a field of its rows, and the dashboard, the exclusions page and
\* the flash message are the same whatever cycle was drawn
C10_NoReceiverField ==
  (last.op = "draw/perform" /\ last.outcome = "success")
    => /\ \A g \in Groups :
            \A row \in DrawView(assignments, participants, exclusions, g).assignments :
              DOMAIN row = {"id", "giver_id", "email_sent"}
       /\ \A r \in OtherDraws : \A g \in Groups :
            /\ DashboardView(r.store, participants, g)
                 = DashboardView(assignments, participants, g)
            /\ ExclusionsView(r.store, participants, exclusions, g)
                 = ExclusionsView(assignments, participants, exclusions, g)
            /\ Message(r.kind, last.count) = Message(last.outcome, last.count)

\* -------------------------------------------------------------- C11..C20
\* C11: decrypt is invoked only on the outbound-mail path (sendAllEmails via
\* findAllDecryptedByGroup): no interactive request handler decrypts the
\* receiver of an assignment.
C11_DecryptOnlyOnMailPath ==
  \A d \in decrypts : d.path = "mail"

\* C12: an assignment row is created with email_sent false; the flag of a row
\* becomes true only in the step in which the transport has delivered that
\* row's message (a failed delivery leaves it false), and the flag of a row that
\* stays in the table never goes back from true to false.
C12_EmailSentOnlyAfterDelivery ==
  [][\A b \in assignments' :
       IF \E a \in assignments : a.id = b.id
       THEN \A a \in assignments :
              a.id = b.id =>
                /\ a.email_sent => b.email_sent
                /\ (~a.email_sent /\ b.email_sent)
                     => \E m \in delivered' \ delivered : m.id = b.id
       ELSE ~b.email_sent]_vars

\* a batch of two has ended with one message delivered and one delivery failed:
\* one row is marked, the other is not
C12_Witness ==
  \E c \in 1..MaxCalls :
    /\ calls[c].pc = "done" /\ calls[c].sent = 1 /\ calls[c].failed = 1
    /\ \E a, b \in assignments :
         /\ {a.id, b.id} = calls[c].atStart /\ a.email_sent /\ ~b.email_sent

\* C13: a sendAllEmails call sends only to the assignments whose email_sent was
\* false when the call read the table: a row already marked sent gets no message
\* from the call, and a call that finds no pending row sends nothing and
\* returns success with sent = 0.
C13_SendsOnlyPendingAtStart ==
  \A c \in 1..MaxCalls :
    calls[c].pc # "idle" =>
      /\ \A m \in delivered : m.call = c => m.id \in calls[c].atStart
      /\ calls[c].atStart = {} =>
           /\ calls[c].pc = "done" /\ calls[c].success /\ calls[c].sent = 0
           /\ \A m \in delivered : m.call # c

\* the first call delivered one message of two; the second call found that row
\* marked, and delivered the other one only
C13_Witness ==
  /\ calls[1].pc = "done" /\ calls[1].sent = 1 /\ calls[1].failed = 1
  /\ calls[2].pc = "done" /\ calls[2].sent = 1 /\ calls[2].failed = 0
  /\ Cardinality(calls[2].atStart) = 1
  /\ calls[2].atStart \subseteq calls[1].atStart
  /\ \A a \in assignments : a.id \in calls[1].atStart => a.email_sent

\* every row of the group was marked when the call began
C13_NonePendingWitness ==
  \E c \in 1..MaxCalls :
    /\ calls[c].pc = "done" /\ calls[c].atStart = {}
    /\ calls[c].success /\ calls[c].sent = 0
    /\ last.op = "draw/send-emails" /\ last.outcome = "called"

\* C14: for any interleaving of two sendAllEmails calls on one group, no
\* assignment's message is delivered more than once.
C14_NoMessageDeliveredTwice ==
  \A m, n \in delivered : m.id = n.id => m.call = n.call

\* C15: a delivery failure does not stop the batch.  When a sendAllEmails call
\* returns, every assignment that was pending at its start was attempted: sent
\* plus failed is the number pending at the start, each failure is recorded with
\* its recipient (the giver the message was for), and success is true exactly
\* when failed is 0.
C15_FailureDoesNotStopBatch ==
  \A c \in 1..MaxCalls :
    calls[c].pc = "done" =>
      /\ calls[c].sent + calls[c].failed = Cardinality(calls[c].atStart)
      /\ Len(calls[c].errors) = calls[c].failed
      /\ calls[c].success <=> (calls[c].failed = 0)
      /\ Cardinality({m \in delivered : m.call = c}) = calls[c].sent
      /\ \A i \in 1..Len(calls[c].errors) :
           \A m \in delivered : m.call = c => m.giver_id # calls[c].errors[i]

\* the first delivery of a batch of two failed and the second message was
\* delivered all the same
C15_Witness ==
  \E c \in 1..MaxCalls :
    /\ calls[c].pc = "done" /\ calls[c].sent = 1 /\ calls[c].failed = 1
    /\ ~calls[c].success
    /\ \E m \in delivered :
         /\ m.call = c
         /\ \E f \in calls[c].atStart :
              f < m.id /\ \A n \in delivered : n.call = c => n.id # f

\* C16: a decryption failure during a send-all batch (wrong key) is isolated to
\* its assignment: a send-emails request that reads rows it cannot decrypt still
\* runs the batch, and the failure is recorded as a per-recipient failure of
\* that call.
C16_DecryptionFailureIsolated ==
  \A g \in Groups :
    ( /\ last.op = "draw/send-emails" /\ last.group = g
      /\ last.outcome \in {"called", "error"}
      /\ \E a \in GroupAssignments(assignments, participants, g) :
           ~a.email_sent /\ a.encrypted_receiver.key # encryptionKey )
    => /\ last.outcome = "called"
       /\ \E c \in 1..MaxCalls : calls[c].group = g /\ calls[c].failed >= 1

\* C17: sendAllEmails never decrypts the receiver of an assignment that is
\* already marked sent: on the mail path decrypt is called for pending rows
\* only.
C17_NoDecryptOfSentRows ==
  \A d \in decrypts : d.path = "mail" => ~d.email_sent

\* C18: perform-draw requests on one group are serialized by the draw-exists
\* check.  A POST /draw/perform on a group that holds the rows of an earlier
\* request is rejected and leaves the store as it was, so that of two requests
\* at most one persists a set; and the store never holds two rows for one giver.
C18_PerformSerialized ==
  /\ [](\A a, b \in assignments : a.giver_id = b.giver_id => a.id = b.id)
  /\ [][\A g \in Groups :
          ( /\ last'.op = "draw/perform" /\ last'.group = g
            /\ GroupAssignments(assignments, participants, g) # {} )
          => /\ last'.outcome \in {"draw_exists", "archived"}
             /\ assignments' = assignments /\ assignmentSeq' = assignmentSeq]_vars

\* the second of two perform requests on a group was rejected: the rows of the
\* first are in the store
C18_Witness ==
  /\ last.op = "draw/perform" /\ last.outcome = "draw_exists"
  /\ \E a \in GroupAssignments(assignments, participants, last.group) :
       a.id = assignmentSeq

\* C19: in every reachable state, no assignment row of a group pairs a giver
\* with a receiver (as decrypt returns it) that the exclusion table forbids for
\* that giver, whatever sequence of add-exclusion, delete-exclusion, perform-draw
\* and reset requests led there.
C19_NoStoredPairExcluded ==
  \A g \in Groups :
    \A a \in GroupAssignments(assignments, participants, g) :
      <<a.giver_id, ReceiverOfRow(a)>> \notin exclusions

\* a draw of three was persisted for a group that has an exclusion between two
\* of its participants
C19_Witness ==
  /\ last.op = "draw/perform" /\ last.outcome = "success" /\ last.count = 3
  /\ \E x \in exclusions :
       /\ x[1] # x[2]
       /\ {x[1], x[2]} \subseteq GroupParticipantIds(participants, last.group)
       /\ \E a \in GroupAssignments(assignments, participants, last.group) :
            a.giver_id = x[1]

\* C20: POST /draw/reset deletes every assignment row of the group: afterwards
\* draw-exists is false and the sent and pending counts are 0.  The rows of
\* every other group, and the participants and exclusions, are as before.
C20_ResetClearsGroupOnly ==
  [][\A g \in Groups :
       (ResetDraw(g) /\ ~Archived(g))
       => /\ ~DrawExistsByGroup(assignments', participants', g)
          /\ CountSentEmailsByGroup(assignments', participants', g) = 0
          /\ CountPendingEmailsByGroup(assignments', participants', g) = 0
          /\ \A h \in Groups \ {g} :
               GroupAssignments(assignments', participants', h)
                 = GroupAssignments(assignments, participants, h)
          /\ participants' = participants
          /\ exclusions' = exclusions]_vars

\* a group was reset while a sendAllEmails call on it had delivered one message
\* and was waiting for the next: its sent and its pending row are gone, the draw
\* of the other group is in the store
C20_Witness ==
  /\ last.op = "draw/reset" /\ last.outcome = "ok"
  /\ GroupAssignments(assignments, participants, last.group) = {}
  /\ \E c \in 1..MaxCalls :
       /\ calls[c].group = last.group /\ calls[c].pc = "awaiting"
       /\ calls[c].sent = 1
  /\ \E h \in Groups \ {last.group} :
       Cardinality(GroupAssignments(assignments, participants, h)) = 2

\* a group of three with an exclusion was drawn and reset
C20_ExclusionsWitness ==
  /\ last.op = "draw/reset" /\ last.outcome = "ok"
  /\ assignmentSeq = 3 /\ assignments = {}
  /\ \E x \in exclusions : x[1] \in GroupParticipantIds(participants, last.group)

\* -------------------------------------------------------------- C21..C30
\* C21: deleting a group removes every assignment, exclusion and participant
\* that belongs to it: after the deletion no assignment row remains whose giver
\* was a participant of the group, no exclusion row names one of them, and the
\* group has no participant; the rows of the other groups stay.
C21_DeleteGroupRemovesAll ==
  [][\A g \in Groups :
       (DeleteGroup(g) /\ GroupAccess(g))
       => LET was == GroupParticipantIds(participants, g)
          IN /\ \A a \in assignments' : a.giver_id \notin was
             /\ \A x \in exclusions' : x[1] \notin was /\ x[2] \notin was
             /\ \A p \in participants' : p.group_id # g
             /\ \A h \in Groups \ {g} :
                  /\ GroupAssignments(assignments', participants', h)
                       = GroupAssignments(assignments, participants, h)
                  /\ GroupParticipantIds(participants', h)
                       = GroupParticipantIds(participants, h)]_vars

\* a group that held a draw was deleted while the other group keeps its draw
C21_Witness ==
  /\ last.op = "groups/delete" /\ last.outcome = "ok"
  /\ last.group \notin groups
  /\ assignmentSeq = 4 /\ Cardinality(assignments) = 2

\* a group of three with an exclusion and a draw was deleted
C21_ExclusionWitness ==
  /\ last.op = "groups/delete" /\ last.outcome = "ok"
  /\ 1 \notin groups /\ assignmentSeq = 3
  /\ exclusions = {} /\ Cardinality(participants) = 1

\* C22: the process refuses to start when the encryption key is absent or
\* malformed: no assignment in the store was encrypted with a missing, default
\* or wrong-length key.
C22_NoRowUnderMalformedKey ==
  \A a \in assignments :
    a.encrypted_receiver.key \notin {Unset, EmptyKey, DefaultKey, WrongLengthKey, Stopped}

\* what does hold: with the variable unset or empty the process exits, and the
\* fallback key of models/assignment.js is never used by a running server
C22_AbsentKeyRefused ==
  /\ encryptionKey \notin {Unset, EmptyKey, DefaultKey}
  /\ \A a \in assignments : a.encrypted_receiver.key \notin {Unset, EmptyKey, DefaultKey}

\* C23: when some participant (of a roster of at least two) has no eligible
\* receiver, the draw fails at once: no cycle-construction attempt
\* (tryBuildCycle) is made.
C23_BlockedFailsBeforeAnyAttempt ==
  ( /\ Cardinality(s_ids) >= 2
    /\ \E giver \in s_ids : Possible(s_ids, s_excl, giver) = {} )
  => s_calls = 0

\* C24: for every receiver id the draw can produce, decrypt(encrypt(id)) = id:
\* what decrypt returns for a ciphertext written by the running process is the
\* id that was given to encrypt, and decrypt does not throw.
C24_RoundTrip ==
  c_decrypted # NoValue =>
    /\ ~c_decrypted.thrown
    /\ c_decrypted.value = c_receiverId

\* an id of three digits went through encrypt and decrypt
C24_Witness ==
  c_decrypted # NoValue /\ c_receiverId >= 100 /\ Len(c_encrypted.plaintext) = 3

\* C25: for a roster of at least two, canPerformDraw answers possible = FALSE
\* (naming a blocked participant) exactly when the eligible-receiver set of some
\* participant, as generateHamiltonianCycle builds it, is empty, and
\* possible = TRUE otherwise; so a group whose draw has just succeeded is one
\* for which canPerformDraw answers possible = TRUE.
C25_CanPerformDrawMatchesEligibility ==
  \A g \in Groups :
    LET ids == GroupParticipantIds(participants, g)
        exclusionMap == {x \in exclusions : x[1] \in ids}
    IN Cardinality(ids) >= 2 =>
         /\ \A answer \in CanPerformDraw(participants, exclusions, g) :
              answer.possible
                = (\A giver \in ids : Possible(ids, exclusionMap, giver) # {})
         /\ (last.op = "draw/perform" /\ last.group = g /\ last.outcome = "success")
              => \A answer \in CanPerformDraw(participants, exclusions, g) :
                   answer.possible

\* what does hold: an answer possible = TRUE is given only when every
\* participant has an eligible receiver
C25_PossibleImpliesEligible ==
  \A g \in Groups :
    LET ids == GroupParticipantIds(participants, g)
        exclusionMap == {x \in exclusions : x[1] \in ids}
    IN \A answer \in CanPerformDraw(participants, exclusions, g) :
         answer.possible
           => \A giver \in ids : Possible(ids, exclusionMap, giver) # {}

\* C26: while a draw exists for a group, the organizer's add-participant,
\* delete-participant, add-exclusion, delete-exclusion and perform-draw requests
\* for the group are rejected and leave the participants, the exclusions and the
\* assignments unchanged; the draw of the group ceases to exist only by a reset
\* of the draw (deleting the group is not a request of this specification).
C26_OrganizerRequest(g) ==
  \/ /\ last'.op = "participants/add"
     /\ \E valid \in BOOLEAN : AddParticipant(g, valid)
  \/ /\ last'.op = "participants/delete"
     /\ \E id \in 1..MaxParticipants : DeleteParticipant(g, id)
  \/ /\ last'.op = "exclusions/add"
     /\ \E giver_id \in FormIds, receiver_id \in PaddedFormIds :
          AddExclusion(g, giver_id, receiver_id)
  \/ /\ last'.op = "exclusions/delete"
     /\ \E row \in ExclusionRows : DeleteExclusion(g, row)
  \/ /\ last'.op = "draw/perform"
     /\ PerformDraw(g)

C26_DrawLocksGroup ==
  [][\A g \in Groups :
       GroupAssignments(assignments, participants, g) # {}
       => /\ (last'.group = g /\ C26_OrganizerRequest(g))
               => /\ last'.outcome \in {"draw_exists", "archived"}
                  /\ UNCHANGED <<participants, exclusions, assignments>>
          /\ GroupAssignments(assignments', participants', g) = {}
               => ResetDraw(g)]_vars

\* a delete-participant request was rejected because the group has a draw
C26_Witness ==
  /\ last.op = "participants/delete" /\ last.outcome = "draw_exists"
  /\ GroupAssignments(assignments, participants, last.group) # {}

\* after a reset the organizer's add-exclusion request is served again
C26_ResetWitness ==
  /\ last.op = "exclusions/add" /\ last.outcome = "ok"
  /\ assignmentSeq > 0
  /\ GroupAssignments(assignments, participants, last.group) = {}

\* C27: every delivered assignment email names the receiver stored for its
\* giver at the moment of delivery: when a call's sendMail resolves, the store
\* holds a row of that giver whose receiver is the one the message names (so no
\* message of a replaced draw is sent).
C27_DeliveredNamesStoredReceiver ==
  [][\A c \in 1..MaxCalls :
       Deliver(c, TRUE)
       => LET m == Head(calls[c].pending)
          IN \E a \in assignments :
               /\ a.giver_id = m.giver_id
               /\ a.encrypted_receiver.plaintext = StringOf(m.receiver_id)]_vars

\* what does hold: a delivery marks no row but the one the message was composed
\* from, so no row of a later draw is marked for a message of an earlier one
C27_MarksOnlyItsRow ==
  [][\A c \in 1..MaxCalls :
       Deliver(c, TRUE)
       => LET m == Head(calls[c].pending)
          IN \A a \in assignments' :
               (a.email_sent /\ a \notin assignments)
               => /\ a.id = m.id /\ a.giver_id = m.giver_id
                  /\ a.encrypted_receiver.plaintext = StringOf(m.receiver_id)]_vars

\* a message of a replaced draw was delivered after the new draw was stored: the
\* row it was composed from is gone and the giver's row of the new draw is
\* still pending
C27_ReplacedDrawDelivered ==
  \E m \in delivered : \E a \in assignments :
    /\ a.giver_id = m.giver_id /\ a.id > m.id
    /\ ~a.email_sent
    /\ \A b \in assignments : b.id # m.id

\* C28: whether a tryBuildCycle attempt succeeds does not depend on its random
\* choices: for the roster and exclusion map of the call either every attempt
\* returns a cycle or every attempt returns null, so once the first attempt has
\* failed no later attempt succeeds and the call fails only after MaxAttempts
\* failed attempts.
C28_AttemptOutcomeFixed ==
  LET attempts == TryBuildCycle(s_ids, s_canGiveTo)
  IN /\ NoCycle \in attempts => attempts = {NoCycle}
     /\ s_attempt >= 1 => /\ ~s_result.success
                          /\ attempts = {NoCycle}
     /\ s_result.success => NoCycle \notin attempts
     /\ (s_result.returned /\ ~s_result.success) => s_attempt = MaxAttempts

\* every attempt of a call failed although each participant has an eligible
\* receiver (the search, not the first test, decides)
C28_Witness ==
  /\ s_result.returned /\ ~s_result.success /\ s_attempt = MaxAttempts
  /\ \A giver \in s_ids : Possible(s_ids, s_excl, giver) # {}

\* a call under exclusions succeeded at its first attempt
C28_SuccessWitness ==
  /\ s_result.success /\ s_attempt = 0 /\ Cardinality(s_excl) = MaxSearchExclusions

\* C29: with SMTP configured, no reset of the draw and deliveries that succeed
\* when tried again and again, repeated sendAllEmails calls lead every group
\* that has a draw to a state where all its assignments are marked sent (pending
\* count 0); the group stays there, and a call made from then on sends nothing.
C29_AllSent(g) ==
  /\ DrawExistsByGroup(assignments, participants, g)
  /\ CountPendingEmailsByGroup(assignments, participants, g) = 0

C29_EventuallyAllSent ==
  /\ \A g \in Groups :
       DrawExistsByGroup(assignments, participants, g) ~> C29_AllSent(g)
  /\ [][\A g \in Groups :
          C29_AllSent(g)
          => /\ C29_AllSent(g)'
             /\ \A c \in 1..MaxRetryCalls :
                  SendEmails(c, g, TRUE)
                  => /\ calls'[c].pc = "done" /\ calls'[c].sent = 0
                     /\ calls'[c].success /\ delivered' = delivered]_vars

\* a group of three had its three assignments marked sent, and a call made
\* after that found nothing pending and returned without sending
C29_Witness ==
  \E g \in Groups, c \in 1..MaxRetryCalls :
    /\ C29_AllSent(g)
    /\ Cardinality(GroupAssignments(assignments, participants, g)) = 3
    /\ calls[c].pc = "done" /\ calls[c].group = g /\ calls[c].sent = 0
    /\ calls[c].atStart = {}
    /\ last.op = "draw/send-emails" /\ last.outcome = "called"

\* C30: while a group is archived, the requests of the group router guarded by
\* requireNotArchived (add and delete participant, add and delete exclusion,
\* perform draw, reset draw, send emails, settings update, regenerate code) are
\* answered with the archived error and change no table, and a registration
\* through the invitation code is refused; the group ceases to be archived only
\* by unarchive.
C30_GuardedOps ==
  {"participants/add", "participants/delete", "exclusions/add", "exclusions/delete",
   "draw/perform", "draw/reset", "draw/send-emails", "settings/update",
   "settings/regenerate-code", "join"}

C30_GuardedRequest(g) ==
  \/ /\ last'.op = "participants/add"
     /\ \E valid \in BOOLEAN : AddParticipant(g, valid)
  \/ /\ last'.op = "join"
     /\ \E valid \in BOOLEAN : Join(g, valid)
  \/ /\ last'.op = "participants/delete"
     /\ \E id \in 1..MaxParticipants : DeleteParticipant(g, id)
  \/ /\ last'.op = "exclusions/add"
     /\ \E giver_id \in FormIds, receiver_id \in FormIds :
          AddExclusion(g, giver_id, receiver_id)
  \/ /\ last'.op = "exclusions/delete"
     /\ \E row \in ExclusionRows : DeleteExclusion(g, row)
  \/ /\ last'.op = "draw/perform"
     /\ PerformDraw(g)
  \/ /\ last'.op = "draw/reset"
     /\ ResetDraw(g)
  \/ /\ last'.op = "draw/send-emails"
     /\ \E c \in 1..MaxRetryCalls, configured \in BOOLEAN : SendEmails(c, g, configured)
  \/ /\ last'.op = "settings/update"
     /\ \E name \in FormNames : UpdateSettings(g, name)
  \/ /\ last'.op = "settings/regenerate-code"
     /\ \E collides \in BOOLEAN : RegenerateCode(g, collides)

C30_ArchivedGroupFrozen ==
  [][\A g \in 1..MaxArchiveGroups :
       g \in archived
       => /\ (last'.group = g /\ C30_GuardedRequest(g))
               => /\ last'.outcome = "archived"
                  /\ UNCHANGED <<participants, participantSeq, exclusions, assignments,
                                 assignmentSeq, archived, groups, settings>>
                  /\ UNCHANGED <<calls, delivered, decrypts>>
          /\ g \notin archived' => Unarchive(g)]_vars

\* a send-emails request was rejected for an archived group that holds a draw
C30_Witness ==
  /\ last.op = "draw/send-emails" /\ last.outcome = "archived"
  /\ last.group \in archived
  /\ DrawExistsByGroup(assignments, participants, last.group)

\* a registration through the invitation code was refused for an archived group
C30_JoinWitness ==
  /\ last.op = "join" /\ last.outcome = "archived" /\ last.group \in archived

\* for a group that is not archived the settings update and the regeneration
\* of the code are served
C30_ServedWitness ==
  /\ last.op = "settings/regenerate-code" /\ last.outcome = "ok"
  /\ settings[last.group].name = "Famille" /\ archived = {}

====
